---- MODULE Spec2Model ----
(***************************************************************************)
(* Model of the sitemap builder: the link extractor, the URL resolver, the *)
(* breadth-first crawl loop of CrawlBFS, the sitemap encoder and main.     *)
(*                                                                         *)
(* Strings are sequences of chunks (a chunk is a run of characters), so    *)
(* that strings.HasPrefix is a prefix test on sequences: "https://a.com/a" *)
(* is <<"https:", "/", "/", "a.com", "/", "a">>.                           *)
(***************************************************************************)
EXTENDS Integers, Sequences, FiniteSets, TLC

VARIABLES
    site,        \* the web: absolute URL -> document served with status 200
    urlArg,      \* main: the -url flag (<<>> when CrawlBFS is called directly)
    maxDepth,    \* the maxDepth argument / -depth flag
    links,       \* the links argument of CrawlBFS
    pc,          \* position of the program
    visited,     \* CrawlBFS: visited
    queue,       \* CrawlBFS: queue
    result,      \* CrawlBFS: result
    err,         \* CrawlBFS: the returned error
    output,      \* main: the sitemaps printed (none, or the one EncodeXML returned)
    fetchLog,    \* history: every FetchAndParse call of the crawl, in order
    enqLog,      \* history: every append to queue, in order
    resultDepth, \* history: depth of the node behind each element of result
    shadow,      \* the same crawl with each failed fetch replaced by an empty page
    solo         \* the same crawl called with links[0] alone, and its fetches

vars == <<site, urlArg, maxDepth, links, pc, visited, queue, result, err,
          output, fetchLog, enqLog, resultDepth, shadow, solo>>

----------------------------------------------------------------------------
(* Bounds *)

MaxDepthBound == 3

MaxLinks == 3

MaxAnchors == 3

----------------------------------------------------------------------------
(* Strings *)

HasPrefix(s, prefix) ==
    /\ Len(prefix) <= Len(s)
    /\ SubSeq(s, 1, Len(prefix)) = prefix

Slash == <<"/">>

Space == " "

Schemes == {"https:", "http:"}

\* the chunk "U+0001" stands for that control character, "U+FFFD" for the
\* replacement character
ControlChunks == {"U+0001"}

\* chunks url.Parse rejects (an invalid percent escape, a control character)
BadChunks == {"%zz"} \cup ControlChunks

RECURSIVE TrimLeft(_)
TrimLeft(s) ==
    IF s # <<>> /\ Head(s) = Space THEN TrimLeft(Tail(s)) ELSE s

RECURSIVE TrimRight(_)
TrimRight(s) ==
    IF s # <<>> /\ s[Len(s)] = Space THEN TrimRight(SubSeq(s, 1, Len(s) - 1)) ELSE s

TrimSpace(s) == TrimRight(TrimLeft(s))

\* strings.Join(strings.Fields(s), " "): runs of whitespace collapse to one
\* space, leading and trailing whitespace goes
RECURSIVE JoinFields(_)
JoinFields(s) ==
    LET t == TrimLeft(s)
    IN  IF t = <<>> THEN <<>>
        ELSE IF Len(t) >= 2 /\ t[2] = Space
             THEN LET rest == JoinFields(Tail(t))
                  IN  IF rest = <<>> THEN <<Head(t)>>
                      ELSE <<Head(t), Space>> \o rest
             ELSE <<Head(t)>> \o JoinFields(Tail(t))

----------------------------------------------------------------------------
(* net/url as the resolver uses it *)

NoHost == <<>>

\* index of the first "/" of s at or after position i, Len(s) + 1 if none
RECURSIVE SlashFrom(_, _)
SlashFrom(s, i) ==
    IF i > Len(s) THEN Len(s) + 1
    ELSE IF s[i] = "/" THEN i
    ELSE SlashFrom(s, i + 1)

ParseOk(s) == \A i \in 1..Len(s) : s[i] \notin BadChunks

\* url.Parse: scheme, authority ("//host") and path
ParseURL(s) ==
    LET hasScheme == s # <<>> /\ Head(s) \in Schemes
        scheme == IF hasScheme THEN <<Head(s)>> ELSE <<>>
        rest == IF hasScheme THEN Tail(s) ELSE s
        hasAuth == HasPrefix(rest, <<"/", "/">>)
        stop == SlashFrom(rest, 3)
    IN  [Scheme |-> scheme,
         HasAuth |-> hasAuth,
         Host |-> IF hasAuth THEN SubSeq(rest, 3, stop - 1) ELSE NoHost,
         Path |-> IF hasAuth THEN SubSeq(rest, stop, Len(rest)) ELSE rest]

\* (*URL).String
URLString(u) ==
    u.Scheme \o (IF u.HasAuth THEN <<"/", "/">> \o u.Host ELSE <<>>) \o u.Path

IsAbs(u) == u.Scheme # <<>>

\* (*URL).ResolveReference for a reference without scheme: a network-path
\* reference ("//host/path") keeps its own host, a path that starts with "/"
\* replaces the base's path, an empty reference is the base
ResolveReference(base, ref) ==
    IF ref.HasAuth
    THEN [Scheme |-> base.Scheme, HasAuth |-> TRUE, Host |-> ref.Host, Path |-> ref.Path]
    ELSE IF ref.Path = <<>>
    THEN base
    ELSE [Scheme |-> base.Scheme, HasAuth |-> base.HasAuth, Host |-> base.Host,
          Path |-> ref.Path]

resolveURL(base, href) ==
    IF ~ParseOk(href) THEN href
    ELSE IF IsAbs(ParseURL(href)) THEN URLString(ParseURL(href))
    ELSE IF ~ParseOk(base) THEN href
    ELSE URLString(ResolveReference(ParseURL(base), ParseURL(href)))

----------------------------------------------------------------------------
(* Link extraction *)

\* A document is the sequence of its anchor elements in document order; an
\* anchor has an href attribute or not, and the text of its text nodes.
Anchor(h, t) == [hasHref |-> TRUE, href |-> h, text |-> t]

AnchorNoHref(t) == [hasHref |-> FALSE, href |-> <<>>, text |-> t]

Link(h, t) == [Href |-> h, Text |-> t]

extractText(a) == JoinFields(a.text)

isInternalLink(link, baseDomain) ==
    HasPrefix(link, Slash) \/ HasPrefix(link, baseDomain)

\* the seen map left out
RECURSIVE walkNoSeen(_, _, _, _)
walkNoSeen(anchors, baseDomain, seen, acc) ==
    IF anchors = <<>> THEN acc
    ELSE LET a == Head(anchors)
         IN  IF a.hasHref /\ isInternalLink(a.href, baseDomain)
             THEN LET href == IF HasPrefix(a.href, Slash)
                              THEN resolveURL(baseDomain, a.href)
                              ELSE a.href
                  IN  walkNoSeen(Tail(anchors), baseDomain, seen,
                                 Append(acc, Link(href, TrimSpace(extractText(a)))))
             ELSE walkNoSeen(Tail(anchors), baseDomain, seen, acc)

RECURSIVE walk(_, _, _, _)
walk(anchors, baseDomain, seen, acc) ==
    IF anchors = <<>> THEN acc
    ELSE LET a == Head(anchors)
         IN  IF a.hasHref /\ isInternalLink(a.href, baseDomain)
             THEN LET href == IF HasPrefix(a.href, Slash)
                              THEN resolveURL(baseDomain, a.href)
                              ELSE a.href
                  IN  IF href \in seen
                      THEN walk(Tail(anchors), baseDomain, seen, acc)
                      ELSE walk(Tail(anchors), baseDomain, seen \cup {href},
                                Append(acc, Link(href, TrimSpace(extractText(a)))))
             ELSE walk(Tail(anchors), baseDomain, seen, acc)

ExtractLinks(doc, baseDomain) == walk(doc, baseDomain, {}, <<>>)

----------------------------------------------------------------------------
(* The web the crawl runs against *)

Origin == <<"https:", "/", "/", "a.com">>

P0 == Origin \o <<"/">>

PA == Origin \o <<"/", "a">>

PB == Origin \o <<"/", "b">>

SitePages == {P0, PA, PB}

\* raw href attribute values
RRoot == <<"/">>

RA == <<"/", "a">>

RB == <<"/", "b">>

External == <<"https:", "/", "/", "o.com", "/", "x">>

NetPath == <<"/", "/", "o.com", "/", "x">>

BadEscape == <<"/", "%zz">>

Docs ==
    { <<>>,
      <<Anchor(RA, <<"a">>)>>,
      <<Anchor(RB, <<"b">>)>>,
      <<Anchor(RRoot, <<"home">>)>>,
      <<Anchor(RA, <<Space, "a", Space, Space, "1", Space>>), Anchor(RB, <<"b">>),
        Anchor(RA, <<"a", "2">>)>>,
      <<Anchor(RB, <<"b">>), AnchorNoHref(<<"x">>), Anchor(PA, <<"a">>),
        Anchor(External, <<"o">>)>>,
      <<Anchor(NetPath, <<"o">>), Anchor(BadEscape, <<"bad">>),
        Anchor(RRoot, <<"home">>)>> }

Sites == [SitePages -> Docs]

Seeds ==
    { <<>>,
      <<Link(P0, <<"home">>)>>,
      <<Link(Origin, <<"home">>)>>,
      <<Link(PA, <<"a">>)>>,
      <<Link(PA, <<"a">>), Link(PB, <<"b">>)>>,
      <<Link(PB, <<"b">>), Link(P0, <<"home">>)>> }

UrlArgs == {Origin, P0, PA}

\* The page a GET of url asks the server for: an empty path is requested as "/"
PageOf(url) ==
    IF ParseOk(url) /\ ParseURL(url).HasAuth /\ ParseURL(url).Path = <<>>
    THEN url \o <<"/">>
    ELSE url

\* FetchAndParse: an error (request, network, status or parse error), or the
\* parsed document when the server has the page
FetchFailed == [ok |-> FALSE, doc |-> <<>>]

FetchAndParse(url) ==
    {FetchFailed} \cup
    (IF PageOf(url) \in SitePages THEN {[ok |-> TRUE, doc |-> site[PageOf(url)]]} ELSE {})

----------------------------------------------------------------------------
(* CrawlBFS *)

Node(link, depth) == [link |-> link, depth |-> depth]

NoError == "nil"

ErrNoLinks == "no links to traverse"

\* queue = queue[1:]
Dequeue(q) == Tail(q)

\* a stack instead of a queue
EnqueueFront(q, n) == <<n>> \o q

\* queue = append(queue, n)
Enqueue(q, n) == Append(q, n)

\* > in place of >=
ReachedMaxDepthStrict(depth, md) == depth > md

\* currentNode.depth >= maxDepth
ReachedMaxDepth(depth, md) == depth >= md

\* the visited test dropped
AlreadyVisitedNever(v, href) == FALSE

\* _, alreadyVisited := visited[href]
AlreadyVisited(v, href) == href \in v

\* the insert into visited left out
MarkVisitedForget(v, href) == v

\* visited[href] = struct{}{}
MarkVisited(v, href) == v \cup {href}

\* the depth not incremented
NextDepthSame(depth) == depth

\* currentNode.depth + 1
NextDepth(depth) == depth + 1

\* a failed node put back on the queue for another try
AfterFetchErrorRetry(st) ==
    [st EXCEPT !.queue = Append(@, [link |-> st.result[Len(st.result)],
                                    depth |-> st.depths[Len(st.depths)]])]

\* return in place of continue: the rest of the frontier is dropped
AfterFetchErrorAbort(st) == [st EXCEPT !.queue = <<>>]

\* the err != nil branch: a warning is printed and the loop continues
AfterFetchError(st) == st

\* the for loop over neighbors; log records each append to the queue with the
\* result position of the page it was found on and its index in neighbors
RECURSIVE EnqueueNeighbors(_, _, _, _, _)
EnqueueNeighbors(neighbors, i, st, depth, from) ==
    IF i > Len(neighbors) THEN st
    ELSE LET neighbor == neighbors[i]
         IN  IF AlreadyVisited(st.visited, neighbor.Href)
             THEN EnqueueNeighbors(neighbors, i + 1, st, depth, from)
             ELSE EnqueueNeighbors(neighbors, i + 1,
                    [st EXCEPT !.visited = MarkVisited(@, neighbor.Href),
                               !.queue = Enqueue(@, Node(neighbor, depth)),
                               !.log = Append(@, [link |-> neighbor, depth |-> depth,
                                                  from |-> from, idx |-> i])],
                    depth, from)

\* every link of the seed taken as a root
StartAll(ls) ==
    [visited |-> {ls[i].Href : i \in 1..Len(ls)},
     queue |-> [i \in 1..Len(ls) |-> [link |-> ls[i], depth |-> 0]],
     result |-> <<>>,
     depths |-> <<>>,
     log |-> [i \in 1..Len(ls) |-> [link |-> ls[i], depth |-> 0, from |-> 0, idx |-> i]]]

\* the last link taken as the root in place of the first
StartLast(ls) ==
    [visited |-> {ls[Len(ls)].Href},
     queue |-> <<[link |-> ls[Len(ls)], depth |-> 0]>>,
     result |-> <<>>,
     depths |-> <<>>,
     log |-> <<[link |-> ls[Len(ls)], depth |-> 0, from |-> 0, idx |-> 1]>>]

\* the state before the loop: visited and queue hold links[0] at depth 0
Start(ls) ==
    [visited |-> MarkVisited({}, ls[1].Href),
     queue |-> <<Node(ls[1], 0)>>,
     result |-> <<>>,
     depths |-> <<>>,
     log |-> <<[link |-> ls[1], depth |-> 0, from |-> 0, idx |-> 1]>>]

\* the seed's href, not the current node's, passed as baseDomain
IterateSeedBase(st, md, fetch) ==
    LET currentNode == st.queue[1]
        popped == [st EXCEPT !.queue = Dequeue(@),
                             !.result = Append(@, currentNode.link),
                             !.depths = Append(@, currentNode.depth)]
    IN  IF ReachedMaxDepth(currentNode.depth, md) THEN popped
        ELSE IF ~fetch.ok THEN AfterFetchError(popped)
        ELSE EnqueueNeighbors(ExtractLinks(fetch.doc, links[1].Href), 1,
                              popped, NextDepth(currentNode.depth), Len(popped.result))

\* the depth test (and its continue) placed before the dequeue
IterateDepthTestFirst(st, md, fetch) ==
    LET currentNode == st.queue[1]
        popped == [st EXCEPT !.queue = Dequeue(@),
                             !.result = Append(@, currentNode.link),
                             !.depths = Append(@, currentNode.depth)]
    IN  IF ReachedMaxDepth(currentNode.depth, md) THEN st
        ELSE IF ~fetch.ok THEN AfterFetchError(popped)
        ELSE EnqueueNeighbors(ExtractLinks(fetch.doc, currentNode.link.Href), 1,
                              popped, NextDepth(currentNode.depth), Len(popped.result))

\* one iteration of the loop, given what FetchAndParse returns if it is called
Iterate(st, md, fetch) ==
    LET currentNode == st.queue[1]
        popped == [st EXCEPT !.queue = Dequeue(@),
                             !.result = Append(@, currentNode.link),
                             !.depths = Append(@, currentNode.depth)]
    IN  IF ReachedMaxDepth(currentNode.depth, md) THEN popped
        ELSE IF ~fetch.ok THEN AfterFetchError(popped)
        ELSE EnqueueNeighbors(ExtractLinks(fetch.doc, currentNode.link.Href), 1,
                              popped, NextDepth(currentNode.depth), Len(popped.result))

Idle == [visited |-> {}, queue |-> <<>>, result |-> <<>>, depths |-> <<>>, log |-> <<>>]

Cur == [visited |-> visited, queue |-> queue, result |-> result,
        depths |-> resultDepth, log |-> enqLog]

\* hrefs whose fetch failed, in a fetch log
Failed(fl) == {fl[i].href : i \in {j \in 1..Len(fl) : ~fl[j].ok}}

\* the other crawl: a page whose fetch failed is served as a page without links
ShadowFetch(url, failed) ==
    IF url \notin failed /\ PageOf(url) \in SitePages
    THEN [ok |-> TRUE, doc |-> site[PageOf(url)]]
    ELSE [ok |-> TRUE, doc |-> <<>>]

ShadowIterate(failed) ==
    IF shadow.queue = <<>> THEN shadow
    ELSE Iterate(shadow, maxDepth, ShadowFetch(shadow.queue[1].link.Href, failed))

\* the crawl of links[0] alone gets the same answer from the same URL
SoloFetch(url, fetch) ==
    IF url = queue[1].link.Href THEN fetch
    ELSE IF PageOf(url) \in SitePages THEN [ok |-> TRUE, doc |-> site[PageOf(url)]]
    ELSE FetchFailed

SoloIterate(fetch) ==
    IF solo.st.queue = <<>> THEN solo
    ELSE LET n == solo.st.queue[1]
             f == SoloFetch(n.link.Href, fetch)
         IN  [st |-> Iterate(solo.st, maxDepth, f),
              fetches |-> IF ReachedMaxDepth(n.depth, maxDepth) THEN solo.fetches
                          ELSE Append(solo.fetches, [href |-> n.link.Href,
                                                     depth |-> n.depth, ok |-> f.ok])]

\* an empty seed answered with a nil error
CrawlBFSEmptyNil ==
    /\ pc = "start"
    /\ Len(links) = 0
    /\ err' = NoError
    /\ pc' = "done"
    /\ UNCHANGED <<site, urlArg, maxDepth, links, visited, queue, result, output,
                   fetchLog, enqLog, resultDepth, shadow, solo>>

\* len(links) == 0: return nil, error
CrawlBFSEmpty ==
    /\ pc = "start"
    /\ Len(links) = 0
    /\ err' = ErrNoLinks
    /\ pc' = "done"
    /\ UNCHANGED <<site, urlArg, maxDepth, links, visited, queue, result, output,
                   fetchLog, enqLog, resultDepth, shadow, solo>>

CrawlBFSInit ==
    /\ pc = "start"
    /\ Len(links) > 0
    /\ visited' = Start(links).visited
    /\ queue' = Start(links).queue
    /\ result' = Start(links).result
    /\ resultDepth' = Start(links).depths
    /\ enqLog' = Start(links).log
    /\ shadow' = Start(links)
    /\ solo' = [st |-> Start(<<links[1]>>), fetches |-> <<>>]
    /\ pc' = "loop"
    /\ UNCHANGED <<site, urlArg, maxDepth, links, err, output, fetchLog>>

Advance(fetch, fl) ==
    LET next == Iterate(Cur, maxDepth, fetch)
    IN  /\ visited' = next.visited
        /\ queue' = next.queue
        /\ result' = next.result
        /\ resultDepth' = next.depths
        /\ enqLog' = next.log
        /\ fetchLog' = fl
        /\ shadow' = ShadowIterate(Failed(fl))
        /\ solo' = SoloIterate(fetch)
        /\ UNCHANGED <<site, urlArg, maxDepth, links, pc, err, output>>

Fetched(ok) ==
    Append(fetchLog, [href |-> queue[1].link.Href, depth |-> queue[1].depth, ok |-> ok])

\* an iteration on a node at the depth limit: no fetch
IterLeaf ==
    /\ pc = "loop"
    /\ queue # <<>>
    /\ ReachedMaxDepth(queue[1].depth, maxDepth)
    /\ Advance(FetchFailed, fetchLog)

\* an iteration whose fetch fails
IterFetchFail ==
    /\ pc = "loop"
    /\ queue # <<>>
    /\ ~ReachedMaxDepth(queue[1].depth, maxDepth)
    /\ Advance(FetchFailed, Fetched(FALSE))

\* an iteration whose fetch succeeds
IterFetchOk ==
    /\ pc = "loop"
    /\ queue # <<>>
    /\ ~ReachedMaxDepth(queue[1].depth, maxDepth)
    /\ \E fetch \in FetchAndParse(queue[1].link.Href) :
          /\ fetch.ok
          /\ Advance(fetch, Fetched(TRUE))

\* the queue is empty: return result, nil
CrawlBFSReturn ==
    /\ pc = "loop"
    /\ queue = <<>>
    /\ pc' = "done"
    /\ err' = NoError
    /\ UNCHANGED <<site, urlArg, maxDepth, links, visited, queue, result, output,
                   fetchLog, enqLog, resultDepth, shadow, solo>>

----------------------------------------------------------------------------
(* EncodeXML and main *)

XMLHeader == "<?xml version=\"1.0\" encoding=\"UTF-8\"?>\n"

SitemapNS == "http://www.sitemaps.org/schemas/sitemap/0.9"

\* nothing printed yet
NoOutput == <<>>

\* xml.EscapeString, chunk by chunk: markup characters become entities, a
\* character outside XML's character range becomes U+FFFD
EscapeChunk(c) ==
    IF c = "&" THEN "&amp;"
    ELSE IF c = "<" THEN "&lt;"
    ELSE IF c = ">" THEN "&gt;"
    ELSE IF c \in ControlChunks THEN "U+FFFD"
    ELSE c

EscapeString(str) == [i \in 1..Len(str) |-> EscapeChunk(str[i])]

\* the Urlset built from the links
UrlsetOf(ls) == [Xmlns |-> SitemapNS, Urls |-> [i \in 1..Len(ls) |-> [Loc |-> ls[i].Href]]]

\* the Urlset of the links' text in place of their href
EncodeXMLText(ls) ==
    [Header |-> XMLHeader,
     Xmlns |-> SitemapNS,
     Urls |-> [i \in 1..Len(ls) |-> [Loc |-> EscapeString(ls[i].Text)]]]

\* xml.Header, then the marshalled Urlset: Loc holds the character data as
\* written
EncodeXML(ls) ==
    [Header |-> XMLHeader,
     Xmlns |-> UrlsetOf(ls).Xmlns,
     Urls |-> [i \in 1..Len(ls) |-> [Loc |-> EscapeString(UrlsetOf(ls).Urls[i].Loc)]]]

\* EncodeXML called on a sequence of links
EncodeCall ==
    /\ pc = "encode"
    /\ output' = <<EncodeXML(links)>>
    /\ pc' = "exit"
    /\ UNCHANGED <<site, urlArg, maxDepth, links, visited, queue, result, err,
                   fetchLog, enqLog, resultDepth, shadow, solo>>

\* main: the fetch of the seed URL fails, main prints the error and returns
MainFetchFail ==
    /\ pc = "main"
    /\ pc' = "exit"
    /\ UNCHANGED <<site, urlArg, maxDepth, links, visited, queue, result, err, output,
                   fetchLog, enqLog, resultDepth, shadow, solo>>

\* main: the seed page's internal links become the argument of CrawlBFS
MainFetchOk ==
    /\ pc = "main"
    /\ \E fetch \in FetchAndParse(urlArg) :
          /\ fetch.ok
          /\ links' = ExtractLinks(fetch.doc, urlArg)
    /\ pc' = "start"
    /\ UNCHANGED <<site, urlArg, maxDepth, visited, queue, result, err, output,
                   fetchLog, enqLog, resultDepth, shadow, solo>>

\* main: CrawlBFS returned an error
MainCrawlError ==
    /\ pc = "done"
    /\ err # NoError
    /\ pc' = "exit"
    /\ UNCHANGED <<site, urlArg, maxDepth, links, visited, queue, result, err, output,
                   fetchLog, enqLog, resultDepth, shadow, solo>>

\* main: the result is encoded and printed
MainEncode ==
    /\ pc = "done"
    /\ err = NoError
    /\ output' = <<EncodeXML(result)>>
    /\ pc' = "exit"
    /\ UNCHANGED <<site, urlArg, maxDepth, links, visited, queue, result, err,
                   fetchLog, enqLog, resultDepth, shadow, solo>>

----------------------------------------------------------------------------
(* Specifications *)

\* no crawl has run
InitIdle ==
    /\ visited = {}
    /\ queue = <<>>
    /\ result = <<>>
    /\ err = NoError
    /\ output = NoOutput
    /\ fetchLog = <<>>
    /\ enqLog = <<>>
    /\ resultDepth = <<>>
    /\ shadow = Idle
    /\ solo = [st |-> Idle, fetches |-> <<>>]

InitCommon ==
    /\ site \in Sites
    /\ maxDepth \in 0..MaxDepthBound
    /\ InitIdle

\* CrawlBFS called on a seed sequence
Init ==
    /\ InitCommon
    /\ urlArg = <<>>
    /\ links \in Seeds
    /\ pc = "start"

Crawl ==
    \/ CrawlBFSEmpty
    \/ CrawlBFSInit
    \/ IterLeaf
    \/ IterFetchFail
    \/ IterFetchOk
    \/ CrawlBFSReturn

Next == Crawl

Spec == Init /\ [][Next]_vars

\* the loop is sequential code: it keeps running while it can
LiveSpec == Spec /\ WF_vars(Next)

\* the whole program
InitMain ==
    /\ InitCommon
    /\ urlArg \in UrlArgs
    /\ links = <<>>
    /\ pc = "main"

NextMain ==
    \/ MainFetchFail
    \/ MainFetchOk
    \/ Crawl
    \/ MainCrawlError
    \/ MainEncode

SpecMain == InitMain /\ [][NextMain]_vars

\* ExtractLinks alone, called as main and CrawlBFS call it: on the document
\* of a fetched page, with that page's URL as baseDomain
LookAlike == Origin \o <<".evil", "/", "x">>

ExtractAnchors ==
    { Anchor(RA, <<Space, "first", Space, Space, "a", Space>>), Anchor(RA, <<"second">>),
      Anchor(PA, <<"abs">>), Anchor(RB, <<"b">>), Anchor(External, <<"o">>),
      Anchor(NetPath, <<"n">>), Anchor(BadEscape, <<"bad">>), Anchor(LookAlike, <<"e">>),
      AnchorNoHref(<<"x">>) }

ExtractDocs == UNION {[1..n -> ExtractAnchors] : n \in 0..MaxAnchors}

ExtractCall ==
    /\ pc = "extract"
    /\ links' = ExtractLinks(site[PageOf(urlArg)], urlArg)
    /\ pc' = "exit"
    /\ UNCHANGED <<site, urlArg, maxDepth, visited, queue, result, err, output,
                   fetchLog, enqLog, resultDepth, shadow, solo>>

InitExtract ==
    /\ InitIdle
    /\ \E doc \in ExtractDocs : site = [p \in SitePages |-> doc]
    /\ maxDepth = 0
    /\ urlArg \in UrlArgs
    /\ links = <<>>
    /\ pc = "extract"

NextExtract == ExtractCall

SpecExtract == InitExtract /\ [][NextExtract]_vars

\* EncodeXML alone
AmpQuery == PA \o <<"?", "x", "=", "1", "&", "y", "=", "<", "2", ">">>

ControlHref == <<"/", "a", "U+0001">>

EncodeLinks ==
    { Link(P0, <<"home">>), Link(PA, <<"a">>), Link(PA, <<"a", Space, "2">>),
      Link(AmpQuery, <<"q">>), Link(ControlHref, <<"c">>) }

EncodeInputs == UNION {[1..n -> EncodeLinks] : n \in 0..MaxLinks}

NoSite == [p \in SitePages |-> <<>>]

InitEncode ==
    /\ InitIdle
    /\ site = NoSite
    /\ maxDepth = 0
    /\ urlArg = <<>>
    /\ links \in EncodeInputs
    /\ pc = "encode"

NextEncode == EncodeCall

SpecEncode == InitEncode /\ [][NextEncode]_vars

----------------------------------------------------------------------------
(* Properties *)

Hrefs(ls) == {ls[i].Href : i \in 1..Len(ls)}

LogHrefs(log) == {log[i].link.Href : i \in 1..Len(log)}

Min(a, b) == IF a <= b THEN a ELSE b

\* what an ok fetch of url extracted
Extracted(url) == ExtractLinks(site[PageOf(url)], url)

\* C1: every href of result appears exactly once, and no URL is appended to
\* the queue twice
C1_GlobalUniqueness ==
    /\ \A i, j \in 1..Len(result) : result[i].Href = result[j].Href => i = j
    /\ \A i, j \in 1..Len(enqLog) :
          enqLog[i].link.Href = enqLog[j].link.Href => i = j

\* a finished crawl in which a fetched page linked back to the seed
C1_Witness ==
    /\ pc = "done"
    /\ Len(result) >= 2
    /\ \E i \in 1..Len(fetchLog) :
          /\ fetchLog[i].ok
          /\ fetchLog[i].depth >= 1
          /\ links[1].Href \in Hrefs(Extracted(fetchLog[i].href))

\* C2: the crawl terminates: the queue runs empty and CrawlBFS returns
C2_Termination == <>(pc = "done")

\* a crawl over a page that links to itself, returned
C2_Witness ==
    /\ pc = "done"
    /\ err = NoError
    /\ \E i \in 1..Len(fetchLog) :
          /\ fetchLog[i].ok
          /\ fetchLog[i].href \in Hrefs(Extracted(fetchLog[i].href))

\* the pages a page's anchors lead to
Targets(page) ==
    {PageOf(resolveURL(page, site[page][i].href)) :
        i \in {j \in 1..Len(site[page]) : site[page][j].hasHref}}

\* c lists N distinct pages, each with one anchor, which leads to the next
IsCycle(c) ==
    /\ \A i, j \in 1..Len(c) : c[i] = c[j] => i = j
    /\ \A i \in 1..Len(c) :
          /\ Len(site[c[i]]) = 1
          /\ Targets(c[i]) = {c[(i % Len(c)) + 1]}

Cycles ==
    {c \in UNION {[1..n -> SitePages] : n \in 1..Cardinality(SitePages)} : IsCycle(c)}

PagesOf(ls) == {PageOf(ls[i].Href) : i \in 1..Len(ls)}

\* C3: on a cycle of N pages, with every fetch succeeding, the result holds
\* at most min(N, maxDepth + 1) distinct pages
C3_CycleBound ==
    (pc = "done" /\ links # <<>> /\ Failed(fetchLog) = {}) =>
        \A c \in Cycles :
            PageOf(links[1].Href) = c[1] =>
                Cardinality(PagesOf(result)) <= Min(Len(c), maxDepth + 1)

\* a cycle of three pages crawled all the way round
C3_Witness ==
    /\ pc = "done"
    /\ links # <<>>
    /\ Failed(fetchLog) = {}
    /\ \E c \in Cycles : Len(c) = 3 /\ PageOf(links[1].Href) = c[1]
    /\ maxDepth = 3
    /\ Cardinality(PagesOf(result)) = 3
    /\ Len(fetchLog) = 3

\* C4: an empty seed is an error, and no fetch is made
C4_EmptySeed ==
    links = <<>> =>
        /\ fetchLog = <<>>
        /\ pc = "done" => (err = ErrNoLinks /\ result = <<>>)

C4_Witness ==
    /\ pc = "done"
    /\ links = <<>>
    /\ maxDepth > 0
    /\ urlArg = <<>>

\* C5: every fetch is for a node of depth below maxDepth, so no link of the
\* result is deeper than maxDepth
C5_DepthBound ==
    /\ \A i \in 1..Len(fetchLog) : fetchLog[i].depth < maxDepth
    /\ \A i \in 1..Len(resultDepth) : resultDepth[i] <= maxDepth

\* a returned crawl with a page at depth maxDepth whose links stayed undiscovered
C5_Witness ==
    /\ pc = "done"
    /\ maxDepth >= 1
    /\ \E i \in 1..Len(result) :
          /\ resultDepth[i] = maxDepth
          /\ PageOf(result[i].Href) \in SitePages
          /\ Hrefs(Extracted(result[i].Href)) \ Hrefs(result) # {}

FetchFailStep ==
    /\ Len(fetchLog') = Len(fetchLog) + 1
    /\ ~fetchLog'[Len(fetchLog')].ok

C7_FailStep ==
    FetchFailStep =>
        /\ result' = Append(result, queue[1].link)
        /\ queue' = Tail(queue)
        /\ visited' = visited
        /\ pc' = "loop"

C7_AtReturn ==
    pc = "done" =>
        /\ Failed(fetchLog) \subseteq Hrefs(result)
        /\ LogHrefs(enqLog) \subseteq Hrefs(result)
        /\ result = shadow.result

\* C7: a failed fetch keeps the node's link in the result, enqueues nothing
\* and leaves the loop running; every node of the frontier is still dequeued,
\* and the returned result is that of the crawl in which the failed pages
\* were fetched and had no internal links
C7_FetchFailureSkipped == [][C7_FailStep]_vars /\ []C7_AtReturn

\* the fetch of the second node failed though its page has undiscovered
\* links, and a node behind it in the frontier was still processed
C7_Witness ==
    /\ pc = "done"
    /\ Len(result) >= 3
    /\ \E i \in 1..Len(fetchLog) :
          /\ ~fetchLog[i].ok
          /\ fetchLog[i].href = result[2].Href
          /\ PageOf(result[2].Href) \in SitePages
          /\ Hrefs(Extracted(result[2].Href)) \ Hrefs(result) # {}

\* C8: CrawlBFS returns an error only for an empty seed; otherwise the
\* error is nil and the result starts with links[0], whatever fetches failed
C8_ErrorOnlyForEmptySeed ==
    pc = "done" =>
        /\ err # NoError <=> links = <<>>
        /\ links # <<>> => (result # <<>> /\ result[1] = links[1])

\* a returned crawl of a two-link seed in which every fetch failed
C8_Witness ==
    /\ pc = "done"
    /\ Len(links) = 2
    /\ fetchLog # <<>>
    /\ \A i \in 1..Len(fetchLog) : ~fetchLog[i].ok

\* (from, idx) of log entry i comes before that of entry j
DiscoveredBefore(log, i, j) ==
    \/ log[i].from < log[j].from
    \/ log[i].from = log[j].from /\ log[i].idx < log[j].idx

\* C9: the result is in BFS level order: depths never decrease along it and
\* start at 0, and links come in discovery order, by the result position of
\* the page they were found on and then by their place in that page's links
C9_LevelOrder ==
    /\ result # <<>> => resultDepth[1] = 0
    /\ \A i, j \in 1..Len(result) : i < j => resultDepth[i] <= resultDepth[j]
    /\ Len(result) <= Len(enqLog)
    /\ \A i \in 1..Len(result) :
          /\ result[i] = enqLog[i].link
          /\ resultDepth[i] = enqLog[i].depth
    /\ \A i, j \in 1..Len(enqLog) : i < j => DiscoveredBefore(enqLog, i, j)
    /\ \A i \in 2..Len(enqLog) :
          /\ enqLog[i].from \in 1..Len(result)
          /\ enqLog[i].depth = resultDepth[enqLog[i].from] + 1

\* the seed page links to /a then /b (and /a again), maxDepth is 1: the
\* result is seed, /a, /b
C9_Witness ==
    /\ pc = "done"
    /\ maxDepth = 1
    /\ Len(fetchLog) = 1
    /\ [i \in 1..Len(result) |-> result[i].Href] = <<P0, PA, PB>>
    /\ resultDepth = <<0, 1, 1>>
    /\ [i \in 1..Len(site[P0]) |-> site[P0][i].href] = <<RA, RB, RA>>

\* the pages the seed page's internal links lead to, link by link
RECURSIVE ReachableFrom(_, _)
ReachableFrom(frontier, seen) ==
    LET next == (UNION {Hrefs(ExtractLinks(site[PageOf(u)], urlArg)) :
                            u \in {v \in frontier : PageOf(v) \in SitePages}}) \ seen
    IN  IF next = {} THEN seen ELSE ReachableFrom(next, seen \cup next)

Reachable == ReachableFrom({urlArg}, {}) \cap SitePages

\* what a reader of the document gets for written character data
UnescapeChunk(c) ==
    IF c = "&amp;" THEN "&"
    ELSE IF c = "&lt;" THEN "<"
    ELSE IF c = "&gt;" THEN ">"
    ELSE c

Unescape(str) == [i \in 1..Len(str) |-> UnescapeChunk(str[i])]

Locs(doc) == {Unescape(doc.Urls[i].Loc) : i \in 1..Len(doc.Urls)}

\* C10: when every fetch succeeds and maxDepth is at least the number of
\* pages, every page reachable from the seed URL by internal links has a
\* location entry in the printed sitemap
C10_AllReachableListed ==
    (pc = "exit" /\ output # NoOutput /\ Failed(fetchLog) = {}
        /\ maxDepth >= Cardinality(SitePages)) =>
        Reachable \subseteq Locs(output[1])

Projection(content(_)) ==
    pc = "exit" =>
        /\ Len(output) = 1
        /\ output[1].Xmlns = "http://www.sitemaps.org/schemas/sitemap/0.9"
        /\ Len(output[1].Urls) = Len(links)
        /\ \A i \in 1..Len(links) :
              /\ DOMAIN output[1].Urls[i] = {"Loc"}
              /\ Unescape(output[1].Urls[i].Loc) = content(links[i])

ExactHref(l) == l.Href

\* a character XML cannot represent reads back as U+FFFD
ReadableHref(l) ==
    [i \in 1..Len(l.Href) |->
        IF l.Href[i] \in ControlChunks THEN "U+FFFD" ELSE l.Href[i]]

TheDoc == site[PageOf(urlArg)]

\* the anchor's raw href passes the internal-link test
Kept(a) ==
    a.hasHref /\ (HasPrefix(a.href, <<"/">>) \/ HasPrefix(a.href, urlArg))

\* the absolute href the anchor stands for
Resolved(a) ==
    IF HasPrefix(a.href, <<"/">>) THEN resolveURL(urlArg, a.href) ELSE a.href

\* the first anchor of the document that stands for href
FirstFor(href) ==
    LET is == {k \in 1..Len(TheDoc) : Kept(TheDoc[k]) /\ Resolved(TheDoc[k]) = href}
    IN  TheDoc[CHOOSE k \in is : \A m \in is : k <= m]

\* C13: one ExtractLinks call returns no href twice; anchors with the same
\* resolved href give exactly one link, with the text of the first of them
C13_PageDedup ==
    pc = "exit" =>
        /\ \A i, j \in 1..Len(links) : links[i].Href = links[j].Href => i = j
        /\ \A k \in 1..Len(TheDoc) :
              Kept(TheDoc[k]) => Resolved(TheDoc[k]) \in Hrefs(links)
        /\ \A i \in 1..Len(links) :
              /\ \E k \in 1..Len(TheDoc) :
                    Kept(TheDoc[k]) /\ Resolved(TheDoc[k]) = links[i].Href
              /\ links[i].Text = TrimSpace(extractText(FirstFor(links[i].Href)))

\* /a, then its absolute form, then /a again, each with its own text: one
\* link, with the first anchor's text
C13_Witness ==
    /\ pc = "exit"
    /\ urlArg = Origin
    /\ Len(TheDoc) = 3
    /\ TheDoc[1].href = RA /\ TheDoc[2].href = PA /\ TheDoc[3].href = RA
    /\ TheDoc[1].text # TheDoc[3].text
    /\ links = <<Link(PA, <<"first", Space, "a">>)>>

\* C14: an anchor is kept exactly when its raw href starts with "/" or has
\* baseDomain as a prefix, and every link that came from an anchor whose href
\* starts with "/" lies on the host of baseDomain
C14_InternalFilter ==
    pc = "exit" =>
        /\ Hrefs(links) = {Resolved(TheDoc[k]) : k \in {m \in 1..Len(TheDoc) : Kept(TheDoc[m])}}
        /\ \A k \in 1..Len(TheDoc) :
              (TheDoc[k].hasHref /\ HasPrefix(TheDoc[k].href, <<"/">>)) =>
                 \E i \in 1..Len(links) :
                    /\ links[i].Href = Resolved(TheDoc[k])
                    /\ ParseURL(links[i].Href).Host = ParseURL(urlArg).Host

\* the step is an iteration whose fetch succeeded
FetchOkStep ==
    /\ Len(fetchLog') = Len(fetchLog) + 1
    /\ fetchLog'[Len(fetchLog')].ok

\* the anchor, found on the page at url, stands for href under the test made
\* with url as baseDomain
StandsFor(a, url, href) ==
    /\ a.hasHref
    /\ \/ HasPrefix(a.href, <<"/">>) /\ href = resolveURL(url, a.href)
       \/ HasPrefix(a.href, url) /\ href = a.href

C15_OkStep ==
    FetchOkStep =>
        /\ Len(enqLog') >= Len(enqLog)
        /\ \A k \in (Len(enqLog) + 1)..Len(enqLog') :
              LET n == queue[1].link.Href
                  page == site[PageOf(n)]
              IN  \E m \in 1..Len(page) : StandsFor(page[m], n, enqLog'[k].link.Href)

FetchedOk == {fetchLog[i].href : i \in {j \in 1..Len(fetchLog) : fetchLog[j].ok}}

\* hrefs within d links of links[0], over the links of the fetched pages
RECURSIVE Within(_)
Within(d) ==
    IF d = 0 THEN {links[1].Href}
    ELSE LET near == Within(d - 1)
         IN  near \cup UNION {Hrefs(Extracted(u)) : u \in near \cap FetchedOk}

\* C16: the depth of each link of the result is its distance from links[0]
\* in the graph of the links extracted from the fetched pages, and the result
\* lists links by distance
C16_DepthIsDistance ==
    (pc = "done" /\ links # <<>>) =>
        /\ \A i \in 1..Len(result) :
              /\ result[i].Href \in Within(resultDepth[i])
              /\ resultDepth[i] > 0 => result[i].Href \notin Within(resultDepth[i] - 1)
        /\ \A i, j \in 1..Len(result) : i < j => resultDepth[i] <= resultDepth[j]

\* a link at depth 2 of a finished crawl in which a deeper page linked back
\* to a page nearer the seed
C16_Witness ==
    /\ pc = "done"
    /\ \E i \in 1..Len(result) : resultDepth[i] = 2
    /\ \E i \in 1..Len(fetchLog) :
          /\ fetchLog[i].ok
          /\ fetchLog[i].depth = 2
          /\ \E j \in 1..Len(result) :
                /\ resultDepth[j] = 1
                /\ result[j].Href \in Hrefs(Extracted(fetchLog[i].href))

QueueHrefs == {queue[i].link.Href : i \in 1..Len(queue)}

C17_Partition ==
    /\ visited = Hrefs(result) \cup QueueHrefs
    /\ Hrefs(result) \cap QueueHrefs = {}

\* C17: at every iteration boundary visited is exactly the hrefs of result
\* and queue, which share none, and no step takes a URL out of visited
C17_VisitedSet == []C17_Partition /\ [][visited \subseteq visited']_vars

\* in the middle of a crawl: links in the result and nodes in the frontier
C17_Witness ==
    /\ pc = "loop"
    /\ Len(result) >= 2
    /\ Len(queue) >= 2

\* C18: no href is fetched twice; the fetches are, in order, those of the
\* dequeued nodes of depth below maxDepth, one each, so there are at most as
\* many fetches as links in the result
C18_OneFetchPerNode ==
    /\ \A i, j \in 1..Len(fetchLog) : fetchLog[i].href = fetchLog[j].href => i = j
    /\ Len(fetchLog) = Cardinality({i \in 1..Len(result) : resultDepth[i] < maxDepth})
    /\ Len(fetchLog) <= Len(result)
    /\ \A k \in 1..Len(fetchLog) :
          /\ fetchLog[k].href = result[k].Href
          /\ fetchLog[k].depth = resultDepth[k]

\* a finished crawl with a failed fetch, further fetches after it and unfetched
\* leaves
C18_Witness ==
    /\ pc = "done"
    /\ Len(fetchLog) >= 3
    /\ ~fetchLog[2].ok
    /\ Len(result) > Len(fetchLog)

====
